---- MODULE Spec2Model ----
(***************************************************************************)
(* State-machine model of the filesystem assistant (src/main.py):          *)
(*   - start_servers / bootstrap: launching the MCP tool servers,          *)
(*   - ChatWindow._submit / _answer: the presentation layer starting       *)
(*     handle() tasks on the shared event loop,                            *)
(*   - Assistant.handle and Assistant._find_session: the tool-calling      *)
(*     loop, cut at its await points (model query, list_tools, call_tool). *)
(*   - qt_main._graceful_quit: closing the window unwinds the exit stack   *)
(*     backend by backend and stops the event loop.                        *)
(* Code between two awaits runs atomically on the asyncio event loop, so   *)
(* every action below is one such segment.                                 *)
(***************************************************************************)
EXTENDS Naturals, Sequences, FiniteSets

VARIABLES
    server_cmds,   \* SERVER_CMDS: the provider tags, in dict insertion order
    app,           \* "booting" | "running" (window shown) | "failed" (bootstrap raised)
    sessions,      \* sessions dict of start_servers / Assistant: tags in insertion order
    tools,         \* tool_schemas / Assistant.tools: the catalog sent to the model
    proc,          \* per provider tag: "none" | "live" | "dead" | "terminated"
    failed,        \* the tag whose launch/handshake raised in start_servers, or "none"
    history,       \* Assistant.history
    task,          \* per handle() task: its position and locals
    nsub,          \* number of _answer tasks created by _submit
    nextId,        \* next correlation id the model will hand out
    model,         \* behaviour of the external model in this session
    events,        \* environment events spent so far (see MaxEvents)
    quit,          \* _graceful_quit: "no" | "closing" | "stopped" | "raised"
    pending_raise  \* a context exit raised while the exit stack unwinds

vars == <<server_cmds, app, sessions, tools, proc, failed, history, task,
          nsub, nextId, model, events, quit, pending_raise>>

----------------------------------------------------------------------------
(* Bounds of the model *)

\* user submissions (handle() tasks) per session
MaxSubmits == 2
\* operation requests in one model response
MaxCalls == 2
\* environment events in one session: every non-final response of a "free"
\* model costs one, plus one per request in it other than the plain
\* list_files() and one for content next to requests; a model fault, a
\* model query issued while another handle() is still active and closing the
\* window cost one each
MaxEvents == 2
\* backend processes that die during one session
MaxVanish == 1

(* Program constants *)

\* Assistant.MAX_STEPS
MAX_STEPS == 10

FALLBACK == "sorry"
SYSTEM_PROMPT == "system prompt"

Tasks == 1..MaxSubmits

----------------------------------------------------------------------------
(* Sequences *)

Range(s) == {s[i] : i \in 1..Len(s)}

----------------------------------------------------------------------------
(* The tool servers: what each advertises through list_tools(), in         *)
(* declaration order, with the declared parameter names.                   *)

Tool(n, ps) == [name |-> n, inputSchema |-> ps]

LocalTools ==
    << Tool("list_files",   <<"directory", "file_type">>),
       Tool("listdir",      <<"path">>),
       Tool("folder_files", <<"folder", "file_type">>),
       Tool("search_files", <<"query", "path">>),
       Tool("rename_file",  <<"old_path", "new_name">>),
       Tool("move_file",    <<"src", "dest">>),
       Tool("copy_file",    <<"src", "dest">>),
       Tool("delete_file",  <<"path">>) >>

GdriveTools ==
    << Tool("list_files",    <<"folder_id">>),
       Tool("search_files",  <<"query">>),
       Tool("rename_file",   <<"file_id", "new_name">>),
       Tool("delete_file",   <<"file_id">>),
       Tool("download_file", <<"file_id">>),
       Tool("upload_file",   <<"local_path", "dest_folder_id">>) >>

IcloudTools ==
    << Tool("list_files",   <<"path">>),
       Tool("search_files", <<"query", "path">>),
       Tool("copy_file",    <<"src_rel", "dest_rel">>),
       Tool("delete_file",  <<"rel_path">>) >>

SynoTools ==
    << Tool("list_directory", <<"path">>),
       Tool("delete_file",    <<"path">>),
       Tool("rename_file",    <<"path", "new_name">>),
       Tool("copy_file",      <<"src", "dest">>) >>

Tags == {"local", "gdrive", "icloud", "syno"}

ToolList(tag) ==
    CASE tag = "local"  -> LocalTools
      [] tag = "gdrive" -> GdriveTools
      [] tag = "icloud" -> IcloudTools
      [] tag = "syno"   -> SynoTools

\* the names a server's list_tools() response carries
Available(tag) == {ToolList(tag)[i].name : i \in 1..Len(ToolList(tag))}

\* start_servers step 5: the raw schema dict kept for one Tool, with MCP's
\* inputSchema renamed to parameters and name/description injected
RawSchema(tool) ==
    [name |-> tool.name, description |-> "", parameters |-> tool.inputSchema]

Schemas(tag) == [i \in 1..Len(ToolList(tag)) |-> RawSchema(ToolList(tag)[i])]

\* wrap_tool_schemas: the raw schemas in the shape the model API takes,
\* one entry per raw schema, in the same order
WrapToolSchemas(raw) ==
    [i \in 1..Len(raw) |->
        [type |-> "function",
         function |-> [name |-> raw[i].name,
                       description |-> raw[i].description,
                       parameters |-> raw[i].parameters]]]

\* SERVER_CMDS as built at import: the three fixed providers, then "syno"
\* when the NAS is configured and answers
ServerCmds(synoWorks) ==
    IF synoWorks THEN <<"local", "gdrive", "icloud", "syno">>
                 ELSE <<"local", "gdrive", "icloud">>

----------------------------------------------------------------------------
(* Conversation turns *)

NoResult == [kind |-> "none", name |-> "", by |-> "", args |-> {}]

Turn(r, c, calls, id, res) ==
    [role |-> r, content |-> c, tool_calls |-> calls, tool_call_id |-> id,
     result |-> res]

SystemTurn    == Turn("system", SYSTEM_PROMPT, <<>>, 0, NoResult)
UserTurn(q)   == Turn("user", q, <<>>, 0, NoResult)
\* msg.model_dump(): content and tool_calls of the response, as they came
AssistantTurn(resp) == Turn("assistant", resp.content, resp.tool_calls, 0, NoResult)
ToolTurn(id, res)   == Turn("tool", "", <<>>, id, res)

\* result payloads
NotFound(n)       == [kind |-> "not_found", name |-> n, by |-> "", args |-> {}]
Returned(tag, n, a) == [kind |-> "result", name |-> n, by |-> tag, args |-> a]

----------------------------------------------------------------------------
(* Arguments of an operation request.  The model sends them as a JSON      *)
(* string; a parsed argument mapping is a set of <<key, value>> pairs.     *)

ArgStrings == {"", "{folder}", "{folder,directory}", "{bad"}

\* whether json.loads accepts the string (s or "{}")
JsonParses(s) == s # "{bad"

\* json.loads(call.function.arguments or "{}")
JsonLoads(s) ==
    CASE s = ""                   -> {}
      [] s = "{folder}"           -> {<<"folder", "Docs">>}
      [] s = "{folder,directory}" -> {<<"folder", "Docs">>, <<"directory", "Home">>}

Keys(a) == {p[1] : p \in a}

\* "… your alias normalization …": the place is a comment, the parsed
\* arguments go to the backend as they are
NormalizeAliases(a) == a

----------------------------------------------------------------------------
(* The external model (chat.completions.create).  A response is            *)
(* [content, tool_calls]; the behaviours enumerated per session are        *)
(*   "stubborn": every answer requests list_files again, never content;    *)
(*   "silent":   every answer is empty (no content, no requests);          *)
(*   "free":     any answer the event budget MaxEvents affords.            *)
(* The two looping behaviours are explored without faults and with one     *)
(* handle() at a time; model faults, backend deaths and overlapping        *)
(* handle() calls are explored with the free model.                        *)

Models == {"stubborn", "silent", "free"}

Request(n, a) == [name |-> n, arguments |-> a]

\* what a free model may ask for: an operation several backends advertise
\* (with each argument string), one only a later backend advertises, and one
\* no backend advertises
RequestKinds ==
    {Request("list_files", a) : a \in ArgStrings}
        \cup {Request("download_file", ""), Request("frobnicate", "")}

Response(c, calls) == [content |-> c, tool_calls |-> calls]

\* the requests rs as tool calls with fresh correlation ids from first on
ToolCalls(rs, first) ==
    [i \in 1..Len(rs) |->
        [id |-> first + i - 1, name |-> rs[i].name, arguments |-> rs[i].arguments]]

FinalResponse == Response("answer", <<>>)
EmptyResponse == Response("", <<>>)

\* the request of the stubborn model, and the plain one of a free model
PlainRequest == Request("list_files", "")

\* how many requests of rs are not the plain one
Varied(rs) == Cardinality({i \in 1..Len(rs) : rs[i] # PlainRequest})

\* events a batch costs
BatchCost(c, rs) == 1 + Varied(rs) + (IF c = "" THEN 0 ELSE 1)

\* the sequences of n requests of which at most v are not the plain one
RECURSIVE RequestSeqs(_, _)
RequestSeqs(n, v) ==
    IF n = 0 THEN {<<>>}
    ELSE {Append(rs, PlainRequest) : rs \in RequestSeqs(n - 1, v)}
         \cup (IF v = 0 THEN {}
               ELSE {Append(x[1], x[2]) :
                        x \in RequestSeqs(n - 1, v - 1) \X (RequestKinds \ {PlainRequest})})

\* the batches a free model can still afford with left events
Batches(first, left) ==
    {Response("", ToolCalls(rs, first)) :
        rs \in UNION {RequestSeqs(n, left - 1) : n \in 1..MaxCalls}}
    \cup (IF left < 2 THEN {}
          ELSE {Response("thinking", ToolCalls(rs, first)) :
                   rs \in UNION {RequestSeqs(n, left - 2) : n \in 1..MaxCalls}})

Responses(m, spent, first) ==
    CASE m = "stubborn" -> {Response("", ToolCalls(<<PlainRequest>>, first))}
      [] m = "silent"   -> {EmptyResponse}
      [] m = "free"     ->
            {FinalResponse} \cup
            (IF spent < MaxEvents
                THEN {EmptyResponse} \cup Batches(first, MaxEvents - spent)
                ELSE {})

\* events the response resp of a model m costs
Cost(m, resp) ==
    IF m # "free" \/ resp = FinalResponse THEN 0
    ELSE IF resp.tool_calls = <<>> THEN 1
    ELSE BatchCost(resp.content,
                   [i \in 1..Len(resp.tool_calls) |->
                       Request(resp.tool_calls[i].name, resp.tool_calls[i].arguments)])

----------------------------------------------------------------------------
(* One handle() task: where it is suspended and its locals.                *)
(*   pc: "idle"    not yet submitted                                       *)
(*       "created" asyncio.create_task(self._answer(text)) done, not run   *)
(*       "query"   awaiting chat.completions.create                        *)
(*       "list"    awaiting sess.list_tools() of sessions[si]              *)
(*       "call"    awaiting owner's call_tool(name, args)                  *)
(*       "done"    returned ret                                            *)
(*       "raised"  left by exception exc                                   *)

IdleTask ==
    [pc |-> "idle", prompt |-> "", step |-> 0, calls |-> <<>>, ci |-> 0, si |-> 0,
     args |-> {}, owner |-> "", turn |-> 0, qlen |-> 0, queries |-> 0,
     ret |-> "", exc |-> "none"]

Active(tk) == tk.pc \in {"created", "query", "list", "call"}
Left(tk)   == tk.pc \in {"done", "raised"}

\* the request the task is dispatching
Call(tk) == tk.calls[tk.ci]

\* messages=self.history handed to chat.completions.create
IssueQuery(tk, h) ==
    [tk EXCEPT !.pc = "query", !.qlen = Len(h), !.queries = @ + 1]

\* (mutation of NextStep: the counter grows by two per round-trip)
NextStepCountsTwice(tk, h) ==
    IF tk.step + 2 < MAX_STEPS
        THEN IssueQuery([tk EXCEPT !.step = @ + 2, !.calls = <<>>, !.ci = 0], h)
        ELSE [tk EXCEPT !.pc = "done", !.ret = FALLBACK, !.calls = <<>>, !.ci = 0]

\* the for-loop's next iteration, or the fallback return after it
NextStep(tk, h) ==
    IF tk.step + 1 < MAX_STEPS
        THEN IssueQuery([tk EXCEPT !.step = @ + 1, !.calls = <<>>, !.ci = 0], h)
        ELSE [tk EXCEPT !.pc = "done", !.ret = FALLBACK, !.calls = <<>>, !.ci = 0]

\* Body of `for call in calls` for calls[ci], up to the first await of
\* _find_session: json.loads, then list_tools() of the first session
\* (self.sessions holds every tag of SERVER_CMDS, so there is a first one)
BeginCall(tk) ==
    IF ~JsonParses(Call(tk).arguments)
        THEN [tk EXCEPT !.pc = "raised", !.exc = "json"]
        ELSE [tk EXCEPT !.pc = "list", !.si = 1, !.owner = "",
                        !.args = NormalizeAliases(JsonLoads(Call(tk).arguments))]

\* (mutation of Appended: the turn is stored without its requests)
AppendedWithoutRequests(h, resp) ==
    Append(h, Turn("assistant", resp.content, <<>>, 0, NoResult))

\* self.history.append(msg.model_dump(exclude_none=True))
Appended(h, resp) == Append(h, AssistantTurn(resp))

\* (mutation of Respond: the fallback message is returned in place of the
\* content)
RespondReturnsFallback(tk1, h1, resp) ==
    IF resp.tool_calls # <<>>
        THEN BeginCall([tk1 EXCEPT !.ci = 1])
        ELSE IF resp.content # ""
                 THEN [tk1 EXCEPT !.pc = "done", !.ret = FALLBACK]
                 ELSE NextStep(tk1, h1)

\* (mutation of Respond: content without requests does not end the call
\* while steps are left)
RespondIgnoresContent(tk1, h1, resp) ==
    IF resp.tool_calls # <<>>
        THEN BeginCall([tk1 EXCEPT !.ci = 1])
        ELSE NextStep(tk1, h1)

\* what follows that append, for the task tk1 holding the calls of resp:
\* the first request of the batch is started, or the content is returned,
\* or (neither requests nor content) the loop goes on
Respond(tk1, h1, resp) ==
    IF resp.tool_calls # <<>>
        THEN BeginCall([tk1 EXCEPT !.ci = 1])
        ELSE IF resp.content # ""
                 THEN [tk1 EXCEPT !.pc = "done", !.ret = resp.content]
                 ELSE NextStep(tk1, h1)

\* (mutation of AfterResult: the tool-result turn is written over the last
\* turn of the history)
AfterResultOverwrites(tk, h, res) ==
    LET h2  == [h EXCEPT ![Len(h)] = ToolTurn(Call(tk).id, res)]
        tk2 == [tk EXCEPT !.ci = @ + 1, !.si = 0, !.owner = "", !.args = {}]
    IN  IF tk2.ci <= Len(tk2.calls)
            THEN [task |-> BeginCall(tk2), history |-> h2]
            ELSE [task |-> NextStep(tk2, h2), history |-> h2]

\* history.append of the tool-result turn, then the next call of the batch
\* or `continue`
AfterResult(tk, h, res) ==
    LET h2  == Append(h, ToolTurn(Call(tk).id, res))
        tk2 == [tk EXCEPT !.ci = @ + 1, !.si = 0, !.owner = "", !.args = {}]
    IN  IF tk2.ci <= Len(tk2.calls)
            THEN [task |-> BeginCall(tk2), history |-> h2]
            ELSE [task |-> NextStep(tk2, h2), history |-> h2]

----------------------------------------------------------------------------
(* Initial state: the module is imported, qt_main has scheduled bootstrap. *)

Init ==
    /\ server_cmds \in {ServerCmds(TRUE), ServerCmds(FALSE)}
    /\ model \in Models
    /\ app = "booting"
    /\ sessions = <<>>
    /\ tools = <<>>
    /\ proc = [tag \in Tags |-> "none"]
    /\ failed = "none"
    /\ history = <<>>
    /\ task = [t \in Tasks |-> IdleTask]
    /\ nsub = 0
    /\ nextId = 1
    /\ events = 0
    /\ quit = "no"
    /\ pending_raise = FALSE

----------------------------------------------------------------------------
(* start_servers, one loop iteration per action, and the end of bootstrap  *)

\* the provider the loop of start_servers is at
NextTag == server_cmds[Len(sessions) + 1]

\* Assistant.__init__: the history starts with the system turn
NewHistory == <<SystemTurn>>

\* (mutation of StartBackend: the schemas of a backend are put in front of
\* the ones collected so far)
StartBackendPrepends ==
    /\ app = "booting"
    /\ Len(sessions) < Len(server_cmds)
    /\ proc' = [proc EXCEPT ![NextTag] = "live"]
    /\ sessions' = Append(sessions, NextTag)
    /\ tools' = Schemas(NextTag) \o tools
    /\ IF Len(sessions) + 1 = Len(server_cmds)
          THEN /\ app' = "running"
               /\ history' = NewHistory
          ELSE UNCHANGED <<app, history>>
    /\ UNCHANGED <<server_cmds, failed, task, nsub, nextId, model, events,
                   quit, pending_raise>>

\* One iteration succeeds: spawn, handshake, sessions[tag] = sess, schemas
\* appended.  After the last one start_servers returns and bootstrap builds
\* the Assistant and shows the window.
StartBackend ==
    /\ app = "booting"
    /\ Len(sessions) < Len(server_cmds)
    /\ proc' = [proc EXCEPT ![NextTag] = "live"]
    /\ sessions' = Append(sessions, NextTag)
    /\ tools' = tools \o Schemas(NextTag)
    /\ IF Len(sessions) + 1 = Len(server_cmds)
          THEN /\ app' = "running"
               /\ history' = NewHistory
          ELSE UNCHANGED <<app, history>>
    /\ UNCHANGED <<server_cmds, failed, task, nsub, nextId, model, events,
                   quit, pending_raise>>

StartStages == {"spawn", "handshake", "list_tools"}

\* (mutation of StartBackendFails: the except clause re-raises without
\* closing the exit stack)
StartBackendFailsNoCleanup(stage) ==
    /\ app = "booting"
    /\ Len(sessions) < Len(server_cmds)
    /\ sessions' = IF stage = "list_tools" THEN Append(sessions, NextTag) ELSE sessions
    /\ proc' = [proc EXCEPT ![NextTag] = IF stage = "spawn" THEN @ ELSE "live"]
    /\ failed' = NextTag
    /\ app' = "failed"
    /\ UNCHANGED <<server_cmds, tools, history, task, nsub, nextId, model,
                   events,
                   quit, pending_raise>>

\* One iteration raises at the given stage: `except Exception` closes the
\* exit stack (every process launched so far is terminated) and re-raises,
\* so bootstrap dies and no Assistant is built.
StartBackendFails(stage) ==
    /\ app = "booting"
    /\ Len(sessions) < Len(server_cmds)
    /\ sessions' = IF stage = "list_tools" THEN Append(sessions, NextTag) ELSE sessions
    /\ proc' = [tag \in Tags |->
                  IF tag \in Range(sessions) \/ (tag = NextTag /\ stage # "spawn")
                      THEN "terminated" ELSE proc[tag]]
    /\ failed' = NextTag
    /\ app' = "failed"
    /\ UNCHANGED <<server_cmds, tools, history, task, nsub, nextId, model,
                   events,
                   quit, pending_raise>>

----------------------------------------------------------------------------
(* The presentation layer *)

Prompts == {"", " ", "list files"}

\* text.strip()
Strip(s) == IF s = " " THEN "" ELSE s

\* the event loop still runs its tasks (loop.stop() has not been called)
LoopRuns == quit # "stopped"

\* no active task was created before t
Oldest(t) == \A u \in Tasks \ {t} : Active(task[u]) => t < u

\* Scheduling bound: the event loop resumes the oldest active task first;
\* a younger task issues a model query at the cost of one event (free
\* model only).
QueryAllowed(t) == Oldest(t) \/ (model = "free" /\ events < MaxEvents)

\* events of the queries task t issued going from old to new
QueryCost(t, old, new) ==
    IF new.queries > old.queries /\ ~Oldest(t) THEN 1 ELSE 0

\* ChatWindow._submit: empty input is ignored, otherwise an _answer task is
\* created; nothing stops a submission while an earlier one is being answered
\* (the user does so while the event budget lasts)
Submit(text) ==
    /\ app = "running"
    /\ quit = "no"
    /\ nsub < MaxSubmits
    /\ (\E u \in Tasks : Active(task[u])) => (model = "free" /\ events < MaxEvents)
    /\ IF Strip(text) = ""
          THEN UNCHANGED <<task, nsub>>
          ELSE /\ task' = [task EXCEPT ![nsub + 1] =
                              [@ EXCEPT !.pc = "created", !.prompt = Strip(text)]]
               /\ nsub' = nsub + 1
    /\ UNCHANGED <<server_cmds, app, sessions, tools, proc, failed, history,
                   nextId, model, events,
                   quit, pending_raise>>

\* The _answer task runs for the first time (tasks start in creation
\* order): handle() appends the user turn and issues its first model query
HandleStart(t) ==
    /\ LoopRuns
    /\ task[t].pc = "created"
    /\ \A u \in Tasks : u < t => task[u].pc # "created"
    /\ QueryAllowed(t)
    /\ LET h1  == Append(history, UserTurn(task[t].prompt))
           new == IssueQuery(task[t], h1)
       IN  /\ history' = h1
           /\ task' = [task EXCEPT ![t] = new]
           /\ events' = events + QueryCost(t, task[t], new)
    /\ UNCHANGED <<server_cmds, app, sessions, tools, proc, failed, nsub, nextId,
                   model,
                   quit, pending_raise>>

----------------------------------------------------------------------------
(* Assistant.handle, one action per resumption *)

\* chat.completions.create returns resp: the turn is appended, then either
\* the first request of the batch is started, or the content is returned,
\* or (empty response) the loop goes on
ModelResponds(t) ==
    /\ LoopRuns
    /\ task[t].pc = "query"
    /\ \E resp \in Responses(model, events, nextId) :
       /\ LET h1  == Appended(history, resp)
              tk1 == [task[t] EXCEPT !.calls = resp.tool_calls, !.turn = Len(h1)]
              new == Respond(tk1, h1, resp)
          IN  /\ new.queries > task[t].queries => QueryAllowed(t)
              /\ history' = h1
              /\ task' = [task EXCEPT ![t] = new]
              /\ events' = events + Cost(model, resp) + QueryCost(t, task[t], new)
       /\ nextId' = nextId + Len(resp.tool_calls)
    /\ UNCHANGED <<server_cmds, app, sessions, tools, proc, failed, nsub, model,
                   quit, pending_raise>>

\* chat.completions.create raises (model provider unreachable): nothing
\* catches it in handle()
ModelFails(t) ==
    /\ LoopRuns
    /\ task[t].pc = "query"
    /\ model = "free"
    /\ events < MaxEvents
    /\ events' = events + 1
    /\ task' = [task EXCEPT ![t] = [@ EXCEPT !.pc = "raised", !.exc = "model"]]
    /\ UNCHANGED <<server_cmds, app, sessions, tools, proc, failed, history, nsub,
                   nextId, model,
                   quit, pending_raise>>

\* A backend process can die at any time during the session; the program
\* notices at its next list_tools()/call_tool on that backend, so the death
\* is taken at that call (at most MaxVanish backends die).  A call on a
\* session the exit stack has closed raises as well.
CanFail(tag) ==
    \/ proc[tag] \in {"dead", "terminated"}
    \/ /\ proc[tag] = "live"
       /\ model = "free"
       /\ Cardinality({g \in Tags : proc[g] = "dead"}) < MaxVanish

\* (mutation of ListToolsReturns: a match is passed over while a later
\* session advertises the name too, so the last provider wins)
ListToolsReturnsLastWins(t) ==
    /\ LoopRuns
    /\ task[t].pc = "list"
    /\ proc[sessions[task[t].si]] = "live"
    /\ LET tk  == task[t]
           tag == sessions[tk.si]
           later == \E j \in (tk.si + 1)..Len(sessions) :
                        Call(tk).name \in Available(sessions[j])
           out == IF Call(tk).name \in Available(tag) /\ ~later
                      THEN [task |-> [tk EXCEPT !.pc = "call", !.owner = tag],
                            history |-> history]
                      ELSE IF tk.si < Len(sessions)
                               THEN [task |-> [tk EXCEPT !.si = @ + 1],
                                     history |-> history]
                               ELSE AfterResult(tk, history, NotFound(Call(tk).name))
       IN  /\ out.task.queries > tk.queries => QueryAllowed(t)
           /\ task' = [task EXCEPT ![t] = out.task]
           /\ history' = out.history
           /\ events' = events + QueryCost(t, tk, out.task)
    /\ UNCHANGED <<server_cmds, app, sessions, tools, proc, failed, nsub, nextId,
                   model,
                   quit, pending_raise>>

\* _find_session: list_tools() of sessions[si] returns.  A match returns
\* that session and call_tool is awaited; otherwise the next session is
\* asked, and after the last one the lookup returns None.
ListToolsReturns(t) ==
    /\ LoopRuns
    /\ task[t].pc = "list"
    /\ proc[sessions[task[t].si]] = "live"
    /\ LET tk  == task[t]
           tag == sessions[tk.si]
           out == IF Call(tk).name \in Available(tag)
                      THEN [task |-> [tk EXCEPT !.pc = "call", !.owner = tag],
                            history |-> history]
                      ELSE IF tk.si < Len(sessions)
                               THEN [task |-> [tk EXCEPT !.si = @ + 1],
                                     history |-> history]
                               ELSE AfterResult(tk, history, NotFound(Call(tk).name))
       IN  /\ out.task.queries > tk.queries => QueryAllowed(t)
           /\ task' = [task EXCEPT ![t] = out.task]
           /\ history' = out.history
           /\ events' = events + QueryCost(t, tk, out.task)
    /\ UNCHANGED <<server_cmds, app, sessions, tools, proc, failed, nsub, nextId,
                   model,
                   quit, pending_raise>>

\* The process of sessions[si] is gone (it died earlier, or dies before
\* answering): list_tools() raises; _find_session and handle() let it through
ListToolsFails(t) ==
    /\ LoopRuns
    /\ task[t].pc = "list"
    /\ CanFail(sessions[task[t].si])
    /\ proc' = [proc EXCEPT ![sessions[task[t].si]] =
                                IF @ = "terminated" THEN @ ELSE "dead"]
    /\ events' = events
    /\ task' = [task EXCEPT ![t] = [@ EXCEPT !.pc = "raised", !.exc = "list_tools"]]
    /\ UNCHANGED <<server_cmds, app, sessions, tools, failed, history, nsub,
                   nextId, model,
                   quit, pending_raise>>

\* call_tool returns: the result is dumped and appended as a tool turn
CallToolReturns(t) ==
    /\ LoopRuns
    /\ task[t].pc = "call"
    /\ proc[task[t].owner] = "live"
    /\ LET tk  == task[t]
           out == AfterResult(tk, history, Returned(tk.owner, Call(tk).name, tk.args))
       IN  /\ out.task.queries > tk.queries => QueryAllowed(t)
           /\ task' = [task EXCEPT ![t] = out.task]
           /\ history' = out.history
           /\ events' = events + QueryCost(t, tk, out.task)
    /\ UNCHANGED <<server_cmds, app, sessions, tools, proc, failed, nsub, nextId,
                   model,
                   quit, pending_raise>>

\* The owner's process is gone: call_tool raises; handle() has no try
\* around it
CallToolFails(t) ==
    /\ LoopRuns
    /\ task[t].pc = "call"
    /\ CanFail(task[t].owner)
    /\ proc' = [proc EXCEPT ![task[t].owner] =
                                IF @ = "terminated" THEN @ ELSE "dead"]
    /\ events' = events
    /\ task' = [task EXCEPT ![t] = [@ EXCEPT !.pc = "raised", !.exc = "call_tool"]]
    /\ UNCHANGED <<server_cmds, app, sessions, tools, failed, history, nsub,
                   nextId, model,
                   quit, pending_raise>>

----------------------------------------------------------------------------
(* qt_main: closing the last window schedules _graceful_quit, which awaits *)
(* exit_stack.aclose() and then stops the event loop.  aclose() exits the  *)
(* contexts in reverse registration order, one backend (its ClientSession  *)
(* and its stdio_client) per action; tasks of handle() run in between.     *)

\* positions in sessions whose contexts the exit stack has not exited yet
ToClose == {i \in 1..Len(sessions) : proc[sessions[i]] # "terminated"}

\* the one aclose() exits next (last in, first out)
LastOpen == CHOOSE i \in ToClose : \A j \in ToClose : j <= i

\* lastWindowClosed fires (a window exists only once bootstrap has shown
\* it, and exit_stack is set by then): _graceful_quit starts aclose().
\* None of the handle() tasks is cancelled or awaited.
WindowClosed ==
    /\ app = "running"
    /\ quit = "no"
    /\ events < MaxEvents
    /\ (\E u \in Tasks : Active(task[u])) => model = "free"
    /\ quit' = "closing"
    /\ events' = events + 1
    /\ UNCHANGED <<server_cmds, app, sessions, tools, proc, failed, history, task,
                   nsub, nextId, model, pending_raise>>

\* (mutation of CloseBackend: the unwinding stops at the first context
\* exit that raises, the remaining backends are left as they are)
CloseBackendStopsAtFault(clean) ==
    /\ quit = "closing"
    /\ clean \/ \A u \in Tasks : ~Active(task[u])
    /\ proc' = [proc EXCEPT ![sessions[LastOpen]] = "terminated"]
    /\ pending_raise' = (pending_raise \/ ~clean)
    /\ quit' = IF pending_raise' THEN "raised"
                ELSE IF ToClose = {LastOpen} THEN "stopped" ELSE "closing"
    /\ UNCHANGED <<server_cmds, app, sessions, tools, failed, history, task,
                   nsub, nextId, model, events>>

\* aclose() exits the contexts of one backend, cleanly or with an
\* exception.  The exit stack keeps a raised exception pending and goes on
\* with the remaining contexts; after the last one it re-raises a pending
\* exception (loop.stop() is then never reached), else _graceful_quit calls
\* loop.stop().  (Unclean exits are explored when no handle() is active.)
CloseBackend(clean) ==
    /\ quit = "closing"
    /\ clean \/ \A u \in Tasks : ~Active(task[u])
    /\ proc' = [proc EXCEPT ![sessions[LastOpen]] = "terminated"]
    /\ pending_raise' = (pending_raise \/ ~clean)
    /\ quit' = IF ToClose = {LastOpen}
                  THEN (IF pending_raise' THEN "raised" ELSE "stopped")
                  ELSE "closing"
    /\ UNCHANGED <<server_cmds, app, sessions, tools, failed, history, task,
                   nsub, nextId, model, events>>

----------------------------------------------------------------------------

Next ==
    \/ StartBackend
    \/ \E stage \in StartStages : StartBackendFails(stage)
    \/ \E text \in Prompts : Submit(text)
    \/ \E t \in Tasks : HandleStart(t)
    \/ \E t \in Tasks : ModelResponds(t)
    \/ \E t \in Tasks : ModelFails(t)
    \/ \E t \in Tasks : ListToolsReturns(t)
    \/ \E t \in Tasks : ListToolsFails(t)
    \/ \E t \in Tasks : CallToolReturns(t)
    \/ \E t \in Tasks : CallToolFails(t)
    \/ WindowClosed
    \/ \E clean \in BOOLEAN : CloseBackend(clean)

Spec == Init /\ [][Next]_vars

\* The event loop runs a task that is ready: _graceful_quit's aclose() goes
\* on until every context is exited.
FairSpec == Spec /\ WF_vars(\E clean \in BOOLEAN : CloseBackend(clean))

----------------------------------------------------------------------------
(* Vocabulary of the properties *)

\* the turn at index i carries operation requests
Requests(h, i) == h[i].role = "assistant" /\ h[i].tool_calls # <<>>

\* the correlation ids of the requests of turn i, in request order
RequestIds(h, i) == [k \in 1..Len(h[i].tool_calls) |-> h[i].tool_calls[k].id]

\* the correlation ids of the tool-result turns of h that answer turn i, in
\* history order
ResultIds(h, i) ==
    LET Answers(u) == u.role = "tool" /\ u.tool_call_id \in Range(RequestIds(h, i))
        rs == SelectSeq(SubSeq(h, i + 1, Len(h)), Answers)
    IN  [k \in 1..Len(rs) |-> rs[k].tool_call_id]

\* some task is still dispatching the requests of turn i
InProgress(i) == \E t \in Tasks : task[t].pc \in {"list", "call"} /\ task[t].turn = i

\* every request turn of h has exactly one tool-result turn per request
\* after it
Paired(h) ==
    \A i \in 1..Len(h) : Requests(h, i) =>
        \A k \in 1..Len(h[i].tool_calls) :
            Cardinality({j \in (i + 1)..Len(h) :
                            /\ h[j].role = "tool"
                            /\ h[j].tool_call_id = h[i].tool_calls[k].id}) = 1

\* the last response the task received was a final answer
GotFinal(tk) ==
    /\ tk.turn > 0
    /\ history[tk.turn].tool_calls = <<>>
    /\ history[tk.turn].content # ""

\* the sessions that advertise the operation name n, by position
Providers(n) == {i \in 1..Len(sessions) : n \in Available(sessions[i])}

\* the first of them in registration order
FirstProvider(n) ==
    sessions[CHOOSE i \in Providers(n) : \A j \in Providers(n) : i <= j]

----------------------------------------------------------------------------
(* Properties *)

\* C1: a handle() call issues at most MAX_STEPS model queries, and when it
\* is over without a model or backend fault and without a final answer, it
\* has returned the fallback message.
C1_FallbackAfterMaxSteps ==
    \A t \in Tasks :
        /\ task[t].queries <= MAX_STEPS
        /\ (/\ Left(task[t])
            /\ task[t].exc \notin {"model", "list_tools", "call_tool"}
            /\ ~GotFinal(task[t]))
           => (task[t].pc = "done" /\ task[t].ret = FALLBACK)

\* C2: once the loop step of a response with N requests is over, the
\* history holds exactly N tool-result turns for it, in request order, each
\* with the correlation id of its request.
C2_OneResultPerRequestInOrder ==
    \A i \in 1..Len(history) :
        (Requests(history, i) /\ ~InProgress(i))
            => ResultIds(history, i) = RequestIds(history, i)

\* C3: whenever a model query is in flight, the history it was sent has
\* exactly one tool-result turn per request after every request turn.
C3_PairedAtEveryQuery ==
    \A t \in Tasks :
        task[t].pc = "query" => Paired(SubSeq(history, 1, task[t].qlen))

\* C4: the dispatch of a request whose name no registered backend
\* advertises never raises (owner lookup and invocation included).
C4_UnknownNameNeverRaises ==
    \A t \in Tasks :
        (task[t].pc = "raised" /\ task[t].exc \in {"list_tools", "call_tool"})
            => Providers(Call(task[t]).name) # {}

\* C5: a fault raised by the owner's invocation never leaves handle().
C5_InvocationFaultIsCaught ==
    \A t \in Tasks : ~(task[t].pc = "raised" /\ task[t].exc = "call_tool")

\* C6: at most one model query of the Assistant is in flight.
C6_OneQueryInFlight ==
    Cardinality({t \in Tasks : task[t].pc = "query"}) <= 1

\* C7: after startup the catalog holds at most one entry per operation name.
C7_CatalogNamesUnique ==
    app = "running" =>
        \A i, j \in 1..Len(tools) : tools[i].name = tools[j].name => i = j

\* C8: a request is only ever invoked on (and answered by) the first
\* backend, in registration order, that advertises its name.
C8_RoutedToFirstProvider ==
    /\ \A t \in Tasks :
          task[t].pc = "call" => task[t].owner = FirstProvider(Call(task[t]).name)
    /\ \A i \in 1..Len(history) :
          history[i].result.kind = "result"
              => history[i].result.by = FirstProvider(history[i].result.name)

\* C8 witness: list_files, advertised by several backends, is in flight on
\* the first one
C8_Witness ==
    \E t \in Tasks :
        /\ task[t].pc = "call"
        /\ Call(task[t]).name = "list_files"
        /\ Cardinality(Providers("list_files")) > 1
        /\ task[t].owner = "local"

\* C9: the arguments sent to the backend are alias-normalized: with folder
\* and directory both given, folder is dropped; with folder alone, it is
\* renamed to directory; normalizing again changes nothing.
C9_AliasesNormalized ==
    \A t \in Tasks :
        task[t].pc = "call" =>
            LET a    == JsonLoads(Call(task[t]).arguments)
                rest == {p \in a : p[1] # "folder"}
            IN  /\ {"folder", "directory"} \subseteq Keys(a) => task[t].args = rest
                /\ ("folder" \in Keys(a) /\ "directory" \notin Keys(a))
                      => task[t].args =
                            rest \cup {<<"directory", p[2]>> : p \in a \ rest}
                /\ NormalizeAliases(task[t].args) = task[t].args

GotBatch(tk) == tk.turn > 0 /\ history[tk.turn].tool_calls # <<>>

\* C12: as soon as a response without requests and with non-empty content
\* arrives, handle() has returned that content, and from then on the call
\* issues no model query and no backend call; a call that returned
\* something else returned the fallback after MAX_STEPS queries.
C12_ReturnsFirstFinalAnswer ==
    /\ [](\A t \in Tasks :
            /\ GotFinal(task[t])
                  => (task[t].pc = "done" /\ task[t].ret = history[task[t].turn].content)
            /\ (task[t].pc = "done" /\ ~GotFinal(task[t]))
                  => (task[t].ret = FALLBACK /\ task[t].queries = MAX_STEPS))
    /\ [][\A t \in Tasks : GotFinal(task[t]) => task'[t] = task[t]]_vars

\* C12 witness: a call returned the final text of its second response,
\* after a tool batch
C12_Witness ==
    \E t \in Tasks :
        /\ task[t].pc = "done"
        /\ task[t].ret = FinalResponse.content
        /\ task[t].queries = 2
        /\ \E i \in 1..Len(history) : history[i].role = "tool"

\* C13: a malformed response (unparsable arguments, or neither requests nor
\* content) never makes handle() raise.
C13_MalformedNeverRaises ==
    \A t \in Tasks : ~(task[t].pc = "raised" /\ task[t].exc = "json")

\* C14: whenever an owner lookup or a backend call for a request is
\* awaited, the response turn that carries the request is in the history,
\* with its requests.
C14_ResponseAppendedBeforeDispatch ==
    \A t \in Tasks :
        task[t].pc \in {"list", "call"} =>
            /\ task[t].turn \in 1..Len(history)
            /\ history[task[t].turn].role = "assistant"
            /\ history[task[t].turn].tool_calls = task[t].calls
            /\ task[t].ci \in 1..Len(task[t].calls)

\* C14 witness: the second request of a response is being invoked, the
\* response turn and the first tool-result turn are in the history
C14_Witness ==
    \E t \in Tasks :
        /\ task[t].pc = "call"
        /\ task[t].ci = 2
        /\ history[task[t].turn].tool_calls = task[t].calls
        /\ Len(history) > task[t].turn

\* C15: after a response with requests, handle() is either dispatching
\* them, or has appended all their tool-result turns and then queried the
\* model again or found the step budget exhausted (fallback); it is never
\* over otherwise.
C15_BatchNeverEndsHandle ==
    \A t \in Tasks :
        GotBatch(task[t]) =>
            \/ task[t].pc \in {"list", "call"}
            \/ /\ task[t].pc \in {"query", "done"}
               /\ ResultIds(history, task[t].turn) = RequestIds(history, task[t].turn)
               /\ task[t].pc = "done"
                     => (task[t].ret = FALLBACK /\ task[t].queries = MAX_STEPS)

\* C16: a handle() call starts with step 0 and no query issued; the number
\* of model queries it has issued is always its step counter plus one, and
\* never more than MAX_STEPS, whatever other calls did.
C16_StepPerRoundTrip ==
    \A t \in Tasks :
        /\ task[t].pc \in {"idle", "created"}
              => (task[t].step = 0 /\ task[t].queries = 0)
        /\ task[t].queries > 0 => task[t].queries = task[t].step + 1
        /\ task[t].queries <= MAX_STEPS
        /\ (task[t].pc = "done" /\ task[t].ret = FALLBACK)
              => task[t].queries = MAX_STEPS

\* C16 witness: a second call issued MAX_STEPS queries after the first call
\* had used its MAX_STEPS
C16_Witness ==
    /\ task[1].pc = "done"
    /\ task[1].queries = MAX_STEPS
    /\ task[2].queries = MAX_STEPS

\* C17: between an assistant turn with N requests and the tool-result turn
\* of its N-th request there are only tool-result turns.
C17_ResultsFollowTheirRequest ==
    \A i \in 1..Len(history) : Requests(history, i) =>
        LET ids == RequestIds(history, i)
        IN  \A j \in (i + 1)..Len(history) :
                (history[j].role = "tool" /\ history[j].tool_call_id = ids[Len(ids)])
                    => \A m \in (i + 1)..j : history[m].role = "tool"

\* C18: once the window is closed (the exit scope is closing or closed), no
\* handle() call is awaiting list_tools or call_tool of a backend.
C18_NoCallDuringTeardown ==
    quit # "no" => \A t \in Tasks : task[t].pc \notin {"list", "call"}

\* C19: an owner lookup never raises because a backend has vanished.
C19_LookupSurvivesVanishedBackend ==
    \A t \in Tasks :
        ~(/\ task[t].pc = "raised"
          /\ task[t].exc = "list_tools"
          /\ proc[sessions[task[t].si]] = "dead")

\* C20: when the unwinding of the exit stack is over, every backend has
\* been released and the event loop is stopped, also when a backend did not
\* terminate cleanly.
C20_ShutdownCompletes ==
    (quit # "no" /\ quit # "closing") => (ToClose = {} /\ quit = "stopped")

\* C21: every step leaves the turns already in the history where they are
\* (the history only grows at its end), and once the Assistant exists its
\* first turn is the system turn and no other turn is a system turn.
C21_HistoryAppendOnly ==
    /\ [](app = "running" =>
            /\ Len(history) >= 1
            /\ history[1] = SystemTurn
            /\ \A i \in 2..Len(history) : history[i].role # "system")
    /\ [][/\ Len(history') >= Len(history)
          /\ SubSeq(history', 1, Len(history)) = history]_vars

\* C21 witness: the history holds user, assistant and tool-result turns
\* after the system turn, one call has returned and one has raised
C21_Witness ==
    /\ history # <<>>
    /\ history[1] = SystemTurn
    /\ {"user", "assistant", "tool"} \subseteq {history[i].role : i \in 1..Len(history)}
    /\ \E t \in Tasks : task[t].pc = "done"
    /\ \E t \in Tasks : task[t].pc = "raised"

\* the raw schemas of the backends tags, in that order, each in its
\* declaration order
RECURSIVE SchemasOf(_)
SchemasOf(tags) ==
    IF tags = <<>> THEN <<>> ELSE Schemas(Head(tags)) \o SchemasOf(Tail(tags))

\* C22: once startup is over the catalog is the schemas of the registered
\* backends in registration order then declaration order; it never changes
\* afterwards, whatever happens to the backends, and every model query that
\* is issued is sent exactly that catalog.
C22_CatalogFixedAtStartup ==
    /\ [](app = "running" => tools = SchemasOf(server_cmds))
    /\ [][app = "running" => tools' = tools]_vars
    /\ [][\A t \in Tasks :
             task'[t].queries > task[t].queries
                 => WrapToolSchemas(tools') = WrapToolSchemas(SchemasOf(server_cmds))]_vars

\* C22 witness: a request for a name of the catalog found its backend gone
\* at dispatch, and a model query is in flight after that
C22_Witness ==
    /\ \E t \in Tasks :
          /\ task[t].pc = "raised"
          /\ task[t].exc \in {"list_tools", "call_tool"}
          /\ \E i \in 1..Len(tools) : tools[i].name = Call(task[t]).name
    /\ \E t \in Tasks : task[t].pc = "query"
    /\ \E tag \in Tags : proc[tag] = "dead"

\* C23: at the step in which handle() returns, a returned answer is the
\* content of the last turn of the history, an assistant turn without
\* requests; a returned fallback is in no turn of the history, whose last
\* turn is a tool-result turn or an assistant turn with neither content nor
\* requests.
C23_ReturnMatchesLastTurn ==
    [][\A t \in Tasks :
          (task[t].pc # "done" /\ task'[t].pc = "done") =>
              LET last == history'[Len(history')]
              IN  IF task'[t].ret # FALLBACK
                      THEN /\ last.role = "assistant"
                           /\ last.tool_calls = <<>>
                           /\ last.content = task'[t].ret
                      ELSE /\ \/ last.role = "tool"
                              \/ /\ last.role = "assistant"
                                 /\ last.tool_calls = <<>>
                                 /\ last.content = ""
                           /\ \A i \in 1..Len(history') :
                                 history'[i].content # FALLBACK]_vars

\* C23 witness: a call returned the fallback right after the last
\* tool-result turn of its last step, and no turn holds the fallback text
C23_Witness ==
    /\ \E t \in Tasks : task[t].pc = "done" /\ task[t].ret = FALLBACK
    /\ history[Len(history)].role = "tool"
    /\ \A i \in 1..Len(history) : history[i].content # FALLBACK

====
